---- MODULE Spec2Model ----
(***************************************************************************)
(* Model of ROOT/RNTupleOptions.hxx: the write options (RNTupleWriteOptions *)
(* and its DAOS specialisation) and the read options of RNTuple.           *)
(*                                                                         *)
(* Objects live in a heap indexed by address, so that Clone() returning a  *)
(* new object (and not an alias or a sliced copy) is something the model   *)
(* can get wrong.  Every call is recorded in `last` (operation, receiver,  *)
(* argument, whether it returned normally, returned address).              *)
(*                                                                         *)
(* The header only DECLARES RNTupleWriteOptions::Clone and the three size  *)
(* setters; their bodies (RNTupleOptions.cxx) are not part of the sources  *)
(* at hand and are modelled from the specification.  The specification     *)
(* leaves open how the size setters treat a value that breaks the size     *)
(* ordering (reject, clamp, or store it and leave validation to the        *)
(* writer): `policy` is that choice, made once and unknown.                *)
(***************************************************************************)
EXTENDS Integers, Sequences, FiniteSets, TLC

VARIABLES heap, ropts, last, calls, policy

vars == <<heap, ropts, last, calls, policy>>

(* ------------------------------- bounds -------------------------------- *)

\* Number of addresses of the heap (objects alive at the same time).
MaxObjects == 2
\* Number of calls made in one behaviour of Spec.
MaxCalls == 3

Addr == 1 .. MaxObjects

\* Arguments the size setters are called with: below the default page size,
\* between the default page and cluster sizes, above the default zipped
\* cluster size, and above kMaxSmallClusterSize.
SizeArgs == {4096, 1000 * 1000, 100 * 1000 * 1000, 1024 * 1024 * 1024}
\* Arguments of SetCompression(int).
CompressionArgs == {0, 505}
\* Arguments of SetCompression(algorithm, level): kZLIB = 1, kLZ4 = 4.
AlgorithmArgs == {1, 4}
LevelArgs == {4}
\* Arguments of SetObjectClass.
ObjectClassArgs == {"SX", "RP_XSF"}
\* Arguments of SetMaxCageSize: 0 (no caging), below the default page size,
\* above the default cage size, and the largest value the model checker's
\* integers can hold.
CageArgs == {0, 4096, 4 * 1024 * 1024, 2147483647}
\* Arguments of SetClusterBunchSize.
BunchArgs == {0, 1, 5, 2147483647}

(* ----------------------- RNTupleWriteOptions --------------------------- *)

\* RCompressionSetting::EDefaults::kUseGeneralPurpose (Compression.h, which
\* is not among the sources at hand).
kUseGeneralPurpose == 101

\* static constexpr std::uint64_t kMaxSmallClusterSize
kMaxSmallClusterSize == 512 * 1024 * 1024

NoObject == [type |-> "none"]

\* A plausible bug: the cluster size limit written in decimal megabytes.
DefaultWriteOptionsDecimalLimit ==
    [type |-> "RNTupleWriteOptions",
     fCompression |-> kUseGeneralPurpose,
     fApproxZippedClusterSize |-> 50 * 1000 * 1000,
     fMaxUnzippedClusterSize |-> 512 * 1000 * 1000,
     fApproxUnzippedPageSize |-> 64 * 1024,
     fUseBufferedWrite |-> TRUE,
     fHasSmallClusters |-> FALSE]

\* The default member initialisers of RNTupleWriteOptions.
DefaultWriteOptions ==
    [type |-> "RNTupleWriteOptions",
     fCompression |-> kUseGeneralPurpose,
     fApproxZippedClusterSize |-> 50 * 1000 * 1000,
     fMaxUnzippedClusterSize |-> 512 * 1024 * 1024,
     fApproxUnzippedPageSize |-> 64 * 1024,
     fUseBufferedWrite |-> TRUE,
     fHasSmallClusters |-> FALSE]

\* The fields RNTupleWriteOptions declares (and RNTupleWriteOptionsDaos
\* inherits).
BaseFields ==
    {"fCompression", "fApproxZippedClusterSize", "fMaxUnzippedClusterSize",
     "fApproxUnzippedPageSize", "fUseBufferedWrite", "fHasSmallClusters"}

\* The fields RNTupleWriteOptionsDaos adds.
DaosFields == {"fObjectClass", "fMaxCageSize"}

IsWriteOptions(o) == o.type \in {"RNTupleWriteOptions", "RNTupleWriteOptionsDaos"}
IsDaos(o) == o.type = "RNTupleWriteOptionsDaos"

GetCompression(this) == this.fCompression
GetApproxZippedClusterSize(this) == this.fApproxZippedClusterSize
GetMaxUnzippedClusterSize(this) == this.fMaxUnzippedClusterSize
GetApproxUnzippedPageSize(this) == this.fApproxUnzippedPageSize
GetUseBufferedWrite(this) == this.fUseBufferedWrite
GetHasSmallClusters(this) == this.fHasSmallClusters

\* CompressionSettings(algorithm, level) of Compression.h: the algorithm and
\* the level packed into one integer (modelled from the specification, for
\* arguments in the range 0..99 that it does not clamp).
CompressionSettings(algorithm, compressionLevel) == algorithm * 100 + compressionLevel

\* void SetCompression(int val) { fCompression = val; }
SetCompression(this, val) == [this EXCEPT !.fCompression = val]

\* void SetCompression(EValues algorithm, int compressionLevel)
SetCompressionAlgorithm(this, algorithm, compressionLevel) ==
    [this EXCEPT !.fCompression = CompressionSettings(algorithm, compressionLevel)]

\* void SetUseBufferedWrite(bool val) { fUseBufferedWrite = val; }
SetUseBufferedWrite(this, val) == [this EXCEPT !.fUseBufferedWrite = val]

\* A plausible bug: requesting small clusters lowers the cluster size limit
\* to the ceiling of small clusters.
SetHasSmallClustersClamping(this, val) ==
    [this EXCEPT !.fHasSmallClusters = val,
                 !.fMaxUnzippedClusterSize =
                     IF val /\ @ > kMaxSmallClusterSize THEN kMaxSmallClusterSize ELSE @]

\* void SetHasSmallClusters(bool val) { fHasSmallClusters = val; }
SetHasSmallClusters(this, val) == [this EXCEPT !.fHasSmallClusters = val]

\* What an implementation of the size setters may do with a value that
\* breaks a constraint (the specification names the three and fixes none):
\* throw and store nothing, store the nearest value that keeps the
\* constraint, or store the value and leave validation to the writer.
SizePolicies == {"reject", "clamp", "defer"}

\* val brought into lo .. hi.
Within(val, lo, hi) == IF val < lo THEN lo ELSE IF val > hi THEN hi ELSE val

\* The largest cluster size limit the object admits: kMaxSmallClusterSize
\* when small clusters are requested, else the argument itself (no limit).
Ceiling(this, val) ==
    IF this.fHasSmallClusters /\ val > kMaxSmallClusterSize THEN kMaxSmallClusterSize ELSE val

\* A size setter under the policy: field is the setter's own field and
\* lo .. hi the values that keep the constraints against the other fields.
\* Whatever the policy, no field but the setter's own is written.
SetSize(this, field, val, lo, hi) ==
    CASE policy = "defer" ->
           [this |-> [this EXCEPT ![field] = val], thrown |-> FALSE]
      [] policy = "clamp" ->
           [this |-> [this EXCEPT ![field] = Within(val, lo, hi)], thrown |-> FALSE]
      [] policy = "reject" ->
           IF lo <= val /\ val <= hi
           THEN [this |-> [this EXCEPT ![field] = val], thrown |-> FALSE]
           ELSE [this |-> this, thrown |-> TRUE]

\* void SetApproxZippedClusterSize(std::size_t val): declared in the header,
\* body modelled from the specification (page <= zipped <= unzipped).
SetApproxZippedClusterSize(this, val) ==
    SetSize(this, "fApproxZippedClusterSize", val,
            this.fApproxUnzippedPageSize, this.fMaxUnzippedClusterSize)

\* void SetMaxUnzippedClusterSize(std::size_t val): declared in the header,
\* body modelled from the specification (zipped <= unzipped, and unzipped
\* <= kMaxSmallClusterSize when small clusters are requested).
SetMaxUnzippedClusterSize(this, val) ==
    SetSize(this, "fMaxUnzippedClusterSize", val,
            this.fApproxZippedClusterSize, Ceiling(this, val))

\* void SetApproxUnzippedPageSize(std::size_t val): declared in the header,
\* body modelled from the specification (page <= zipped).
SetApproxUnzippedPageSize(this, val) ==
    SetSize(this, "fApproxUnzippedPageSize", val, 0, this.fApproxZippedClusterSize)

(* --------------------- RNTupleWriteOptionsDaos ------------------------- *)

\* A plausible bug: the default cage size is one page.
DefaultWriteOptionsDaosOnePage ==
    [type |-> "RNTupleWriteOptionsDaos",
     fCompression |-> DefaultWriteOptions.fCompression,
     fApproxZippedClusterSize |-> DefaultWriteOptions.fApproxZippedClusterSize,
     fMaxUnzippedClusterSize |-> DefaultWriteOptions.fMaxUnzippedClusterSize,
     fApproxUnzippedPageSize |-> DefaultWriteOptions.fApproxUnzippedPageSize,
     fUseBufferedWrite |-> DefaultWriteOptions.fUseBufferedWrite,
     fHasSmallClusters |-> DefaultWriteOptions.fHasSmallClusters,
     fObjectClass |-> "SX",
     fMaxCageSize |-> DefaultWriteOptions.fApproxUnzippedPageSize]

\* The base subobject is initialised first; fMaxCageSize is then computed,
\* once, from the page size the base subobject has at that point.
DefaultWriteOptionsDaos ==
    [type |-> "RNTupleWriteOptionsDaos",
     fCompression |-> DefaultWriteOptions.fCompression,
     fApproxZippedClusterSize |-> DefaultWriteOptions.fApproxZippedClusterSize,
     fMaxUnzippedClusterSize |-> DefaultWriteOptions.fMaxUnzippedClusterSize,
     fApproxUnzippedPageSize |-> DefaultWriteOptions.fApproxUnzippedPageSize,
     fUseBufferedWrite |-> DefaultWriteOptions.fUseBufferedWrite,
     fHasSmallClusters |-> DefaultWriteOptions.fHasSmallClusters,
     fObjectClass |-> "SX",
     fMaxCageSize |-> 16 * DefaultWriteOptions.fApproxUnzippedPageSize]

GetObjectClass(this) == this.fObjectClass
GetMaxCageSize(this) == this.fMaxCageSize

\* void SetObjectClass(const std::string &val) { fObjectClass = val; }
SetObjectClass(this, val) == [this EXCEPT !.fObjectClass = val]

\* A plausible bug: the setter enforces the documented assumption that a
\* cage is no smaller than a page (0 excepted) by ignoring smaller values.
SetMaxCageSizeChecked(this, cageSz) ==
    IF cageSz = 0 \/ cageSz >= this.fApproxUnzippedPageSize
    THEN [this EXCEPT !.fMaxCageSize = cageSz]
    ELSE this

\* void SetMaxCageSize(uint32_t cageSz) { fMaxCageSize = cageSz; }
SetMaxCageSize(this, cageSz) == [this EXCEPT !.fMaxCageSize = cageSz]

(* ------------------------------- Clone --------------------------------- *)

\* An address of the heap that holds no object (operator new).
FreeAddr(h) == CHOOSE a \in Addr : h[a] = NoObject

\* The copy constructor of RNTupleWriteOptions applied to *this: the six
\* base fields, whatever the dynamic type of *this.
BaseCopy(this) ==
    [type |-> "RNTupleWriteOptions",
     fCompression |-> this.fCompression,
     fApproxZippedClusterSize |-> this.fApproxZippedClusterSize,
     fMaxUnzippedClusterSize |-> this.fMaxUnzippedClusterSize,
     fApproxUnzippedPageSize |-> this.fApproxUnzippedPageSize,
     fUseBufferedWrite |-> this.fUseBufferedWrite,
     fHasSmallClusters |-> this.fHasSmallClusters]

\* A plausible bug: Clone hands out the object itself instead of a copy.
CloneWriteOptionsAliasing(h, a) == [heap |-> h, ret |-> a]

\* std::unique_ptr<RNTupleWriteOptions> RNTupleWriteOptions::Clone() const:
\* declared in the header, body modelled from the specification.
CloneWriteOptions(h, a) ==
    LET b == FreeAddr(h)
    IN [heap |-> [h EXCEPT ![b] = BaseCopy(h[a])], ret |-> b]

\* A plausible bug: the override copies through the base class and slices
\* the DAOS fields off.
CloneWriteOptionsDaosSlicing(h, a) ==
    LET b == FreeAddr(h)
    IN [heap |-> [h EXCEPT ![b] = BaseCopy(h[a])], ret |-> b]

\* RNTupleWriteOptionsDaos::Clone() const override
\*   { return std::make_unique<RNTupleWriteOptionsDaos>(*this); }
CloneWriteOptionsDaos(h, a) ==
    LET b == FreeAddr(h)
    IN [heap |-> [h EXCEPT ![b] = h[a]], ret |-> b]

\* The virtual call p->Clone() through a RNTupleWriteOptions pointer.
Clone(h, a) ==
    IF IsDaos(h[a]) THEN CloneWriteOptionsDaos(h, a) ELSE CloneWriteOptions(h, a)

(* ------------- implicit copy assignment, construction, destruction ------ *)

\* RNTupleWriteOptions &RNTupleWriteOptions::operator=(const RNTupleWriteOptions &),
\* implicitly declared: memberwise assignment of the six base fields.  It is
\* not virtual: the dynamic type of *this and the fields a derived class
\* adds stay as they are.
AssignWriteOptions(this, other) ==
    [this EXCEPT !.fCompression = other.fCompression,
                 !.fApproxZippedClusterSize = other.fApproxZippedClusterSize,
                 !.fMaxUnzippedClusterSize = other.fMaxUnzippedClusterSize,
                 !.fApproxUnzippedPageSize = other.fApproxUnzippedPageSize,
                 !.fUseBufferedWrite = other.fUseBufferedWrite,
                 !.fHasSmallClusters = other.fHasSmallClusters]

\* RNTupleWriteOptionsDaos &RNTupleWriteOptionsDaos::operator=(const
\* RNTupleWriteOptionsDaos &), implicitly declared: the base subobject is
\* assigned, then the two fields of the derived class.
AssignWriteOptionsDaos(this, other) ==
    [AssignWriteOptions(this, other) EXCEPT !.fObjectClass = other.fObjectClass,
                                            !.fMaxCageSize = other.fMaxCageSize]

\* A default-constructed object of the named class at a free address.
Construct(h, type) ==
    LET b == FreeAddr(h)
        o == IF type = "RNTupleWriteOptionsDaos" THEN DefaultWriteOptionsDaos
             ELSE DefaultWriteOptions
    IN [heap |-> [h EXCEPT ![b] = o], ret |-> b]

\* The implicitly declared copy constructors, called directly: a new object
\* of the named class is constructed from *a.  Constructing a
\* RNTupleWriteOptions from an object of the derived class copies the base
\* subobject only (a sliced copy).
CopyConstruct(h, type, a) ==
    LET b == FreeAddr(h)
        o == IF type = "RNTupleWriteOptionsDaos" THEN h[a] ELSE BaseCopy(h[a])
    IN [heap |-> [h EXCEPT ![b] = o], ret |-> b]

\* virtual ~RNTupleWriteOptions() = default (and its override): the object
\* is gone and its address is free again.
Destroy(h, a) == [h EXCEPT ![a] = NoObject]

(* ------------------------- RNTupleReadOptions -------------------------- *)

\* A plausible bug: the cluster cache is off by default.
DefaultReadOptionsCacheOff == [fClusterCache |-> "kOff", fClusterBunchSize |-> 1]

\* EClusterCache::kDefault = kOn; fClusterBunchSize = 1.
DefaultReadOptions == [fClusterCache |-> "kOn", fClusterBunchSize |-> 1]

EClusterCache == {"kOff", "kOn"}

GetClusterCache(this) == this.fClusterCache
GetClusterBunchSize(this) == this.fClusterBunchSize

\* void SetClusterCache(EClusterCache val) { fClusterCache = val; }
SetClusterCache(this, val) == [this EXCEPT !.fClusterCache = val]

\* void SetClusterBunchSize(unsigned int val) { fClusterBunchSize = val; }
SetClusterBunchSize(this, val) == [this EXCEPT !.fClusterBunchSize = val]

\* RNTupleReadOptions &RNTupleReadOptions::operator=(const RNTupleReadOptions &),
\* implicitly declared: memberwise assignment of both fields.
AssignReadOptions(this, other) ==
    [this EXCEPT !.fClusterCache = other.fClusterCache,
                 !.fClusterBunchSize = other.fClusterBunchSize]

\* The read options an assignment copies from.
ReadOptionsArgs == [fClusterCache : EClusterCache, fClusterBunchSize : {1, 5}]

(* ------------------------------ state ---------------------------------- *)

\* The record of a call: the operation, the address of the receiver (0 for
\* the read options), the argument, whether the call returned normally (no
\* exception), and the address returned (0 when none is).
Called(op, this, arg, ok, ret) ==
    [op |-> op, this |-> this, arg |-> arg, ok |-> ok, ret |-> ret]

Live(a) == a \in Addr /\ IsWriteOptions(heap[a])

\* One call on the write options: the heap after it and what it returned.
Call(op, a, arg, h, ok, ret) ==
    /\ calls < MaxCalls
    /\ heap' = h
    /\ last' = Called(op, a, arg, ok, ret)
    /\ calls' = calls + 1
    /\ UNCHANGED <<ropts, policy>>

\* One call on the read options.
CallRead(op, arg, r) ==
    /\ calls < MaxCalls
    /\ ropts' = r
    /\ last' = Called(op, 0, arg, TRUE, 0)
    /\ calls' = calls + 1
    /\ UNCHANGED <<heap, policy>>

\* A caller constructs one write options object, of either class, and one
\* read options object.
Init ==
    /\ \E o \in {DefaultWriteOptions, DefaultWriteOptionsDaos} :
          heap = [a \in Addr |-> IF a = 1 THEN o ELSE NoObject]
    /\ ropts = DefaultReadOptions
    /\ last = Called("ctor", 1, 0, TRUE, 1)
    /\ calls = 0
    /\ policy \in SizePolicies

(* ------------------------------ actions -------------------------------- *)

DoSetCompression(a, val) ==
    /\ Live(a)
    /\ Call("SetCompression", a, val,
            [heap EXCEPT ![a] = SetCompression(heap[a], val)], TRUE, 0)

DoSetCompressionAlgorithm(a, algorithm, level) ==
    /\ Live(a)
    /\ Call("SetCompressionAlgorithm", a, <<algorithm, level>>,
            [heap EXCEPT ![a] = SetCompressionAlgorithm(heap[a], algorithm, level)], TRUE, 0)

DoSetApproxZippedClusterSize(a, val) ==
    /\ Live(a)
    /\ LET r == SetApproxZippedClusterSize(heap[a], val)
       IN Call("SetApproxZippedClusterSize", a, val,
               [heap EXCEPT ![a] = r.this], ~r.thrown, 0)

DoSetMaxUnzippedClusterSize(a, val) ==
    /\ Live(a)
    /\ LET r == SetMaxUnzippedClusterSize(heap[a], val)
       IN Call("SetMaxUnzippedClusterSize", a, val,
               [heap EXCEPT ![a] = r.this], ~r.thrown, 0)

DoSetApproxUnzippedPageSize(a, val) ==
    /\ Live(a)
    /\ LET r == SetApproxUnzippedPageSize(heap[a], val)
       IN Call("SetApproxUnzippedPageSize", a, val,
               [heap EXCEPT ![a] = r.this], ~r.thrown, 0)

DoSetUseBufferedWrite(a, val) ==
    /\ Live(a)
    /\ Call("SetUseBufferedWrite", a, val,
            [heap EXCEPT ![a] = SetUseBufferedWrite(heap[a], val)], TRUE, 0)

DoSetHasSmallClusters(a, val) ==
    /\ Live(a)
    /\ Call("SetHasSmallClusters", a, val,
            [heap EXCEPT ![a] = SetHasSmallClusters(heap[a], val)], TRUE, 0)

\* The DAOS setters are reached through the derived interface only.
DoSetObjectClass(a, val) ==
    /\ Live(a)
    /\ IsDaos(heap[a])
    /\ Call("SetObjectClass", a, val,
            [heap EXCEPT ![a] = SetObjectClass(heap[a], val)], TRUE, 0)

DoSetMaxCageSize(a, cageSz) ==
    /\ Live(a)
    /\ IsDaos(heap[a])
    /\ Call("SetMaxCageSize", a, cageSz,
            [heap EXCEPT ![a] = SetMaxCageSize(heap[a], cageSz)], TRUE, 0)

\* p->Clone() through a pointer to the base class.
DoClone(a) ==
    /\ Live(a)
    /\ \E b \in Addr : heap[b] = NoObject
    /\ LET r == Clone(heap, a)
       IN Call("Clone", a, 0, r.heap, TRUE, r.ret)

\* *d = *a through references to the base class (d and a of either class).
DoAssign(d, a) ==
    /\ Live(d)
    /\ Live(a)
    /\ Call("operator=", d, a,
            [heap EXCEPT ![d] = AssignWriteOptions(heap[d], heap[a])], TRUE, 0)

\* *d = *a through references to the derived class.
DoAssignDaos(d, a) ==
    /\ Live(d)
    /\ Live(a)
    /\ IsDaos(heap[d])
    /\ IsDaos(heap[a])
    /\ Call("Daos::operator=", d, a,
            [heap EXCEPT ![d] = AssignWriteOptionsDaos(heap[d], heap[a])], TRUE, 0)

\* A further object of either class is default-constructed.
DoConstruct(type) ==
    /\ \E b \in Addr : heap[b] = NoObject
    /\ LET r == Construct(heap, type)
       IN Call("ctor", r.ret, 0, r.heap, TRUE, r.ret)

\* new T(*a): a RNTupleWriteOptions from an object of either class, or a
\* RNTupleWriteOptionsDaos from an object of that class.
DoCopyConstruct(type, a) ==
    /\ Live(a)
    /\ type = "RNTupleWriteOptionsDaos" => IsDaos(heap[a])
    /\ \E b \in Addr : heap[b] = NoObject
    /\ LET r == CopyConstruct(heap, type, a)
       IN Call("copy-ctor", r.ret, a, r.heap, TRUE, r.ret)

\* An object is destroyed.
DoDestroy(a) ==
    /\ Live(a)
    /\ Call("dtor", a, 0, Destroy(heap, a), TRUE, 0)

DoAssignRead(other) ==
    CallRead("ReadOptions::operator=", other, AssignReadOptions(ropts, other))

DoSetClusterCache(val) ==
    CallRead("SetClusterCache", val, SetClusterCache(ropts, val))

DoSetClusterBunchSize(val) ==
    CallRead("SetClusterBunchSize", val, SetClusterBunchSize(ropts, val))

Next ==
    \/ \E a \in Addr, val \in CompressionArgs : DoSetCompression(a, val)
    \/ \E a \in Addr, alg \in AlgorithmArgs, lvl \in LevelArgs :
          DoSetCompressionAlgorithm(a, alg, lvl)
    \/ \E a \in Addr, val \in SizeArgs : DoSetApproxZippedClusterSize(a, val)
    \/ \E a \in Addr, val \in SizeArgs : DoSetMaxUnzippedClusterSize(a, val)
    \/ \E a \in Addr, val \in SizeArgs : DoSetApproxUnzippedPageSize(a, val)
    \/ \E a \in Addr, val \in BOOLEAN : DoSetUseBufferedWrite(a, val)
    \/ \E a \in Addr, val \in BOOLEAN : DoSetHasSmallClusters(a, val)
    \/ \E a \in Addr, val \in ObjectClassArgs : DoSetObjectClass(a, val)
    \/ \E a \in Addr, val \in CageArgs : DoSetMaxCageSize(a, val)
    \/ \E a \in Addr : DoClone(a)
    \/ \E d \in Addr, a \in Addr : DoAssign(d, a)
    \/ \E d \in Addr, a \in Addr : DoAssignDaos(d, a)
    \/ \E type \in {"RNTupleWriteOptions", "RNTupleWriteOptionsDaos"} : DoConstruct(type)
    \/ \E type \in {"RNTupleWriteOptions", "RNTupleWriteOptionsDaos"}, a \in Addr :
          DoCopyConstruct(type, a)
    \/ \E a \in Addr : DoDestroy(a)
    \/ \E other \in ReadOptionsArgs : DoAssignRead(other)
    \/ \E val \in EClusterCache : DoSetClusterCache(val)
    \/ \E val \in BunchArgs : DoSetClusterBunchSize(val)

Spec == Init /\ [][Next]_vars

(* ------------------------------ claims --------------------------------- *)

\* C4: Clone() on an object whose dynamic type is RNTupleWriteOptionsDaos
\* returns a new RNTupleWriteOptionsDaos with the ObjectClass, the
\* MaxCageSize and the six inherited fields of the original.
C4_DaosClonePreservesTypeAndFields ==
    (last.op = "Clone" /\ IsDaos(heap[last.this])) =>
        /\ last.ret # last.this
        /\ IsDaos(heap[last.ret])
        /\ GetObjectClass(heap[last.ret]) = GetObjectClass(heap[last.this])
        /\ GetMaxCageSize(heap[last.ret]) = GetMaxCageSize(heap[last.this])
        /\ \A f \in BaseFields : heap[last.ret][f] = heap[last.this][f]

\* C4, its case: a DAOS object whose cage size is no longer 16 pages, and
\* whose object class is no longer the default, was cloned.
C4_Witness ==
    /\ last.op = "Clone"
    /\ IsDaos(heap[last.this])
    /\ \/ GetMaxCageSize(heap[last.this]) % 16 # 0
       \/ GetMaxCageSize(heap[last.this]) \div 16 # GetApproxUnzippedPageSize(heap[last.this])
    /\ GetObjectClass(heap[last.this]) # "SX"

\* A step that is a call (and not a stuttering step).
IsCall == calls' = calls + 1

\* C5: Clone() returns a new object (an address that held none) equal to the
\* original in the six fields and leaves the original as it was; a call on
\* one object afterwards changes no field of any other object.
C5_CloneEqualAndIndependent ==
    [][IsCall =>
         /\ (last'.op = "Clone" =>
               /\ last'.ret # last'.this
               /\ heap[last'.ret] = NoObject
               /\ IsWriteOptions(heap'[last'.ret])
               /\ \A f \in BaseFields : heap'[last'.ret][f] = heap[last'.this][f]
               /\ heap'[last'.this] = heap[last'.this])
         /\ (last'.op # "Clone" =>
               \A x \in Addr : x # last'.this => heap'[x] = heap[x])]_vars

\* C5, its case: a setter was applied to one of two live objects, and the
\* two now differ in a base field.
C5_Witness ==
    \E a, b \in Addr :
       /\ a # b
       /\ Live(a)
       /\ Live(b)
       /\ last.this = b
       /\ last.op \in {"SetCompression", "SetApproxUnzippedPageSize", "SetHasSmallClusters"}
       /\ last.ok
       /\ \E f \in BaseFields : heap[a][f] # heap[b][f]

\* C6: a default-constructed RNTupleWriteOptions has Compression = the
\* general purpose default, ApproxZippedClusterSize = 50,000,000,
\* MaxUnzippedClusterSize = 536,870,912 = kMaxSmallClusterSize,
\* ApproxUnzippedPageSize = 65,536, UseBufferedWrite = true and
\* HasSmallClusters = false.
C6_WriteOptionsDefaults ==
    (last.op = "ctor" /\ heap[last.ret].type = "RNTupleWriteOptions") =>
        /\ GetCompression(heap[last.ret]) = kUseGeneralPurpose
        /\ GetApproxZippedClusterSize(heap[last.ret]) = 50000000
        /\ GetMaxUnzippedClusterSize(heap[last.ret]) = 536870912
        /\ GetMaxUnzippedClusterSize(heap[last.ret]) = kMaxSmallClusterSize
        /\ GetApproxUnzippedPageSize(heap[last.ret]) = 65536
        /\ GetUseBufferedWrite(heap[last.ret]) = TRUE
        /\ GetHasSmallClusters(heap[last.ret]) = FALSE

\* C6, its case: a RNTupleWriteOptions was just constructed.
C6_Witness ==
    /\ last.op = "ctor"
    /\ heap[last.ret].type = "RNTupleWriteOptions"
    /\ calls = 0

\* C7: a default-constructed RNTupleWriteOptionsDaos has ObjectClass = "SX",
\* MaxCageSize = 16 x the default page size = 1,048,576, and the defaults of
\* RNTupleWriteOptions in its inherited fields.
C7_DaosDefaults ==
    (last.op = "ctor" /\ IsDaos(heap[last.ret])) =>
        /\ GetObjectClass(heap[last.ret]) = "SX"
        /\ GetMaxCageSize(heap[last.ret]) = 1048576
        /\ GetMaxCageSize(heap[last.ret]) = 16 * 65536
        /\ GetCompression(heap[last.ret]) = kUseGeneralPurpose
        /\ GetApproxZippedClusterSize(heap[last.ret]) = 50000000
        /\ GetMaxUnzippedClusterSize(heap[last.ret]) = 536870912
        /\ GetApproxUnzippedPageSize(heap[last.ret]) = 65536
        /\ GetUseBufferedWrite(heap[last.ret]) = TRUE
        /\ GetHasSmallClusters(heap[last.ret]) = FALSE

\* C7, its case: a RNTupleWriteOptionsDaos was just constructed.
C7_Witness ==
    /\ last.op = "ctor"
    /\ IsDaos(heap[last.ret])
    /\ calls = 0

\* C8: SetMaxCageSize(v) returns normally for every v, 0 and values below
\* the current page size included, and GetMaxCageSize() is then v.
C8_SetMaxCageSizeTotal ==
    last.op = "SetMaxCageSize" =>
        /\ last.ok
        /\ GetMaxCageSize(heap[last.this]) = last.arg

\* C8, its case: a cage size that is not 0 and is smaller than the page size
\* of the object was set.
C8_Witness ==
    /\ last.op = "SetMaxCageSize"
    /\ last.arg # 0
    /\ last.arg < GetApproxUnzippedPageSize(heap[last.this])

\* C8, its other case: the cage size was set to 0.
C8_WitnessZero ==
    /\ last.op = "SetMaxCageSize"
    /\ last.arg = 0
    /\ GetMaxCageSize(heap[last.this]) = 0

\* C9: the read options start as ClusterCache = On, ClusterBunchSize = 1;
\* SetClusterCache(c) makes GetClusterCache() return c and leaves the bunch
\* size alone, SetClusterBunchSize(b) makes GetClusterBunchSize() return b
\* and leaves the cluster cache alone.
C9_ReadOptions ==
    /\ GetClusterCache(ropts) = "kOn"
    /\ GetClusterBunchSize(ropts) = 1
    /\ [][IsCall =>
            /\ (last'.op = "SetClusterCache" =>
                  /\ GetClusterCache(ropts') = last'.arg
                  /\ GetClusterBunchSize(ropts') = GetClusterBunchSize(ropts))
            /\ (last'.op = "SetClusterBunchSize" =>
                  /\ GetClusterBunchSize(ropts') = last'.arg
                  /\ GetClusterCache(ropts') = GetClusterCache(ropts))]_vars

\* C9, its case: the cluster cache was switched off after the bunch size
\* had been changed.
C9_Witness ==
    /\ last.op = "SetClusterCache"
    /\ last.arg = "kOff"
    /\ GetClusterCache(ropts) = "kOff"
    /\ GetClusterBunchSize(ropts) = 5

\* The field each setter is for.
OwnField(op) ==
    CASE op = "SetCompression" -> "fCompression"
      [] op = "SetCompressionAlgorithm" -> "fCompression"
      [] op = "SetApproxZippedClusterSize" -> "fApproxZippedClusterSize"
      [] op = "SetMaxUnzippedClusterSize" -> "fMaxUnzippedClusterSize"
      [] op = "SetApproxUnzippedPageSize" -> "fApproxUnzippedPageSize"
      [] op = "SetUseBufferedWrite" -> "fUseBufferedWrite"
      [] op = "SetHasSmallClusters" -> "fHasSmallClusters"
      [] op = "SetObjectClass" -> "fObjectClass"
      [] op = "SetMaxCageSize" -> "fMaxCageSize"

WriteSetters ==
    {"SetCompression", "SetCompressionAlgorithm", "SetApproxZippedClusterSize",
     "SetMaxUnzippedClusterSize", "SetApproxUnzippedPageSize", "SetUseBufferedWrite",
     "SetHasSmallClusters", "SetObjectClass", "SetMaxCageSize"}

\* C10: a setter of the write options changes no field of its object but
\* its own: the type and every other field are as before the call.
C10_SettersChangeOwnFieldOnly ==
    [][(IsCall /\ last'.op \in WriteSetters) =>
          /\ DOMAIN heap'[last'.this] = DOMAIN heap[last'.this]
          /\ \A f \in DOMAIN heap[last'.this] \ {OwnField(last'.op)} :
                heap'[last'.this][f] = heap[last'.this][f]]_vars

\* C10, its case: the page size of a DAOS object was changed and its cage
\* size is still the one computed at construction.
C10_Witness ==
    /\ last.op = "SetApproxUnzippedPageSize"
    /\ last.ok
    /\ IsDaos(heap[last.this])
    /\ GetApproxUnzippedPageSize(heap[last.this]) # 64 * 1024
    /\ GetMaxCageSize(heap[last.this]) = 16 * 64 * 1024

\* C10, its other case: small clusters were requested on an object whose
\* cluster size limit is above the ceiling, and the limit is still there.
C10_WitnessSmallClusters ==
    /\ last.op = "SetHasSmallClusters"
    /\ last.arg = TRUE
    /\ GetMaxUnzippedClusterSize(heap[last.this]) > kMaxSmallClusterSize

====
